---- MODULE Spec2Model ----
(***************************************************************************)
(* Model of molecule's scenario run coordinator                            *)
(* (src/src/molecule/command/base.py): discovery of scenario configs,      *)
(* the leading/trailing shared create/destroy of the default scenario,     *)
(* the scenario loop with its prerun and reset branches, the dispatch of   *)
(* actions by name, the always-destroy compensation path, the end-of-run   *)
(* report, and the prepare handler (src/src/molecule/command/prepare.py).  *)
(***************************************************************************)
EXTENDS Integers, Sequences, FiniteSets, TLC

\* ------------------------------------------------------------------ bounds
\* Longest list of requested scenario names (--scenario-name, repeatable).
MaxNames == 2
\* Exit codes a ScenarioFailureError of an action may carry: 1..MaxCode.
MaxCode == 2

\* --------------------------------------------------------------- universe
\* Scenario directories that may exist under molecule/ (one molecule.yml each).
Dirs == {"alt", "default", "web"}
\* Order in which a wildcard glob lists the directories (sorted by directory).
DirOrder == <<"alt", "default", "web">>
\* The scenario name a descriptor declares: directory "alt" declares the
\* name "web", so two descriptors of one glob can share a name.
NameOf(d) == IF d = "alt" THEN "web" ELSE d

\* A glob pattern and a path are lists of path components; "*" matches any
\* one component.
MOLECULE_GLOB == <<"molecule", "*", "molecule.yml">>
MOLECULE_DEFAULT_SCENARIO_NAME == "default"
\* Config object not found (Python None).
NoConfig == "none"
\* Exit code of a ScenarioFailureError raised with a message only.
DefaultCode == 1

FullSequence == <<"create", "prepare", "converge", "destroy">>
TestSequence == <<"create", "converge", "destroy">>
ConvergeSequence == <<"converge">>
\* A sequence that lists prepare twice, and one that lists an action no
\* command module implements.
RepeatSequence == <<"prepare", "converge", "prepare">>
UnknownSequence == <<"converge", "bogus", "verify">>
\* The action names for which molecule.command has a module.
KnownActions == {"create", "prepare", "converge", "destroy", "cleanup",
                 "dependency", "verify"}
\* The role_name_check setting of the config in directory d.
role_name_check(d) == IF d = "default" THEN "off" ELSE "warn"

\* An exception: its class (kind), its exit code, and what raised it.
NoExc == [kind |-> "none", code |-> 0, what |-> "none"]
SFE(c) == [kind |-> "sfe", code |-> c, what |-> "action"]
OtherExc == [kind |-> "other", code |-> 0, what |-> "action"]
\* importlib.import_module found no module of the action's name.
ResolutionError == [kind |-> "other", code |-> 0, what |-> "resolution"]
\* shutil.rmtree found no directory to remove.
RmtreeError == [kind |-> "other", code |-> 0, what |-> "rmtree"]
GlobFailed == [kind |-> "sfe", code |-> DefaultCode, what |-> "glob"]
DuplicateName == [kind |-> "sfe", code |-> DefaultCode, what |-> "duplicate"]
\* What one dispatched action can do: return, raise ScenarioFailureError
\* with a code, or raise any other exception.
Outcomes == {NoExc} \cup {SFE(c) : c \in 1..MaxCode} \cup {OtherExc}

VARIABLES
    fs,               \* directories present on disk
    scenario_names,   \* [given |-> BOOLEAN, names |-> Seq(Dirs)]; given = FALSE is None
    excludes,         \* set of excluded scenario names
    command_args,     \* [subcommand, destroy, report, shared_state, parallel, force]
    sequence,         \* sequence[d]: the action sequence of the scenario in directory d
    prerun,           \* prerun[d]: the config in directory d flags prerun
    provisioner,      \* the provisioner of the configs: none, no_playbook, ready
    persisted,        \* the prepared flag of the state files when the run starts
    pc,               \* position of the run
    configs,          \* list of discovered Config objects (their directories)
    default_config,   \* Config of the default scenario, or NoConfig
    all,              \* scenarios.all: the Scenario objects of the set, in order
    results,          \* scenarios.results
    buffers,          \* buffers[k]: scenario.results of all[k]
    default_buffer,   \* default_config.scenario.results
    i,                \* index of the current scenario in all
    j,                \* index of the current action in its sequence
    dispatched,       \* trace of execute_subcommand calls
    exc,              \* exception propagating out of the current call
    failure,          \* the first action failure of the run
    ephemeral,        \* ephemeral[name]: the ephemeral directory exists
    compensation,     \* the cleanup/destroy after a failure: none, running, done, failed
    reports,          \* number of reports printed
    current_action,   \* current_action[k]: config.action of object k (0: default_config)
    prepared,         \* prepared[k]: config.state.prepared of object k
    steps,            \* log of what the run called besides execute_subcommand
    state_dir,        \* state_dir[name]: the scenario's state directory exists
    outcome           \* how the process ended

inputs == <<fs, scenario_names, excludes, command_args, sequence, prerun,
            provisioner, persisted>>
vars == <<fs, scenario_names, excludes, command_args, sequence, prerun,
          provisioner, persisted, pc, configs,
          default_config, all, results, buffers, default_buffer, i, j,
          dispatched, exc, failure, ephemeral, compensation, reports, outcome,
          current_action, prepared, steps, state_dir>>

\* ------------------------------------------------------------- sequences
RECURSIVE SeqsUpTo(_, _)
\* All non-empty lists over S of length at most n.
SeqsUpTo(S, n) ==
    IF n = 0 THEN {}
    ELSE LET shorter == SeqsUpTo(S, n - 1)
         IN  {<<x>> : x \in S} \cup shorter \cup
             {Append(s, x) : s \in shorter, x \in S}

Range(s) == {s[k] : k \in 1..Len(s)}

RECURSIVE Concat(_)
Concat(ss) == IF ss = <<>> THEN <<>> ELSE Head(ss) \o Concat(Tail(ss))

\* -------------------------------------------------------------- discovery
\* str.replace("*", name) on a pattern: every "*" component becomes name.
Replace(pattern, name) ==
    [k \in 1..Len(pattern) |-> IF pattern[k] = "*" THEN name ELSE pattern[k]]

PathOf(d) == <<"molecule", d, "molecule.yml">>

Matches(pattern, path) ==
    /\ Len(pattern) = Len(path)
    /\ \A k \in 1..Len(pattern) : pattern[k] = "*" \/ pattern[k] = path[k]

\* glob.glob(glob_str): the directories on disk whose descriptor matches.
Glob(disk, glob_str) ==
    SelectSeq(DirOrder, LAMBDA d : d \in disk /\ Matches(glob_str, PathOf(d)))

\* collections.Counter(scenario_names): some name is counted more than once.
HasDuplicate(cs) ==
    \E a, b \in 1..Len(cs) : a # b /\ NameOf(cs[a]) = NameOf(cs[b])

\* Variant of _verify_configs that accepts an empty list of configs.
_verify_configs_AcceptEmpty(cs) ==
    IF HasDuplicate(cs) THEN DuplicateName ELSE NoExc

\* _verify_configs: the exception it raises, NoExc when it returns.
_verify_configs(cs) ==
    IF cs # <<>>
    THEN IF HasDuplicate(cs) THEN DuplicateName ELSE NoExc
    ELSE GlobFailed

\* get_configs: the configs of a glob and the exception raised, if any.
get_configs(disk, glob_str) ==
    LET cs == Glob(disk, glob_str)
    IN  [configs |-> cs, exc |-> _verify_configs(cs)]

\* Config.shared_data: the --shared-state flag of the command arguments.
shared_data(args) == args.shared_state = TRUE

\* Scenarios(configs, scenario_names).all: the scenarios of the set, in
\* discovery order.
ScenariosAll(cs, names) == cs

RECURSIVE ExtendConfigs(_, _, _)
\* The loop over the requested names: one get_configs per name, the
\* results concatenated; the first exception ends the loop.
ExtendConfigs(disk, names, acc) ==
    IF names = <<>> THEN [configs |-> acc, exc |-> NoExc]
    ELSE LET r == get_configs(disk, Replace(MOLECULE_GLOB, Head(names)))
         IN  IF r.exc # NoExc THEN [configs |-> acc, exc |-> r.exc]
             ELSE ExtendConfigs(disk, Tail(names), acc \o r.configs)

\* ------------------------------------------------------------------- Init
Names == {NameOf(d) : d \in Dirs}
ExcludeChoices == {{}, {"web"}, {"default"}}
Running == [kind |-> "running", exc |-> NoExc]

\* The requested scenario names.
RequestNames == {"default", "web"}
\* Subcommand and destroy argument: only test has a --destroy option.
ArgProfiles == {<<"test", "always">>, <<"test", "never">>,
                <<"converge", "unset">>, <<"reset", "unset">>}
CommandArgs(pr, report, shared, parallel, force) ==
    [subcommand |-> pr[1], destroy |-> pr[2], report |-> report,
     shared_state |-> shared, parallel |-> parallel, force |-> force]

\* The state of a run before its first step.
Start ==
    /\ pc = "discover"
    /\ configs = <<>>
    /\ default_config = NoConfig
    /\ all = <<>>
    /\ results = <<>>
    /\ buffers = <<>>
    /\ default_buffer = <<>>
    /\ i = 1
    /\ j = 1
    /\ dispatched = <<>>
    /\ exc = NoExc
    /\ failure = [exc |-> NoExc, scn |-> "", action |-> "", obj |-> 0, at |-> 0]
    /\ compensation = "none"
    /\ reports = 0
    /\ outcome = Running
    /\ current_action = <<>>
    /\ prepared = <<>>
    /\ steps = <<>>
    /\ state_dir = [n \in Names |-> TRUE]

\* Runs over every layout of the disk, every request and every mode of
\* the command; no prerun, no parallel isolation, the provisioner is
\* configured and nothing is prepared.
Init ==
    /\ fs \in SUBSET Dirs
    /\ scenario_names \in
          {[given |-> FALSE, names |-> <<>>]} \cup
          {[given |-> TRUE, names |-> s] : s \in SeqsUpTo(RequestNames, MaxNames)}
    /\ excludes \in ExcludeChoices
    /\ \E pr \in ArgProfiles, report, shared \in BOOLEAN :
          command_args = CommandArgs(pr, report, shared, FALSE, FALSE)
    /\ \E sd \in {FullSequence, ConvergeSequence},
          sw \in {TestSequence, ConvergeSequence} :
          sequence = [d \in Dirs |-> IF d = "default" THEN sd ELSE sw]
    /\ prerun = [d \in Dirs |-> FALSE]
    /\ provisioner = "ready"
    /\ persisted = FALSE
    /\ ephemeral = [n \in Names |-> TRUE]
    /\ Start

\* Runs over the handlers' cases: sequences that repeat prepare or name an
\* unknown action, forced and unforced prepare, every provisioner, and
\* the state files and ephemeral directories either left by an earlier
\* run or absent.
InitHandlers ==
    /\ fs = Dirs \ {"alt"}
    /\ scenario_names \in
          {[given |-> TRUE, names |-> s] : s \in SeqsUpTo(RequestNames, MaxNames)}
    /\ excludes = {}
    /\ \E pr \in ArgProfiles, shared, force \in BOOLEAN :
          command_args = CommandArgs(pr, FALSE, shared, FALSE, force)
    /\ \E sw \in {RepeatSequence, UnknownSequence, TestSequence} :
          sequence = [d \in Dirs |-> IF d = "default" THEN FullSequence ELSE sw]
    /\ prerun = [d \in Dirs |-> FALSE]
    /\ provisioner \in {"none", "no_playbook", "ready"}
    /\ \E left \in BOOLEAN :
          /\ persisted = left
          /\ ephemeral = [n \in Names |-> left]
    /\ Start

\* Runs over the exclusion cases: every layout of the disk, every request
\* over the directories and every exclusion, for the test subcommand.
InitExcludes ==
    /\ fs \in SUBSET Dirs
    /\ scenario_names \in
          {[given |-> FALSE, names |-> <<>>]} \cup
          {[given |-> TRUE, names |-> s] : s \in SeqsUpTo(Dirs, MaxNames)}
    /\ excludes \in ExcludeChoices
    /\ \E destroy \in {"always", "never"}, shared \in BOOLEAN :
          command_args = CommandArgs(<<"test", destroy>>, FALSE, shared, FALSE, FALSE)
    /\ sequence = [d \in Dirs |-> IF d = "default" THEN FullSequence
                                  ELSE TestSequence]
    /\ prerun = [d \in Dirs |-> FALSE]
    /\ provisioner = "ready"
    /\ persisted = FALSE
    /\ ephemeral = [n \in Names |-> TRUE]
    /\ Start

\* Runs over the isolation cases: parallel and serial runs, configs with
\* and without the prerun flag.
InitIsolation ==
    /\ fs = Dirs \ {"alt"}
    /\ scenario_names \in
          {[given |-> TRUE, names |-> s] : s \in SeqsUpTo(RequestNames, MaxNames)}
    /\ excludes = {}
    /\ \E pr \in ArgProfiles, shared, parallel \in BOOLEAN :
          command_args = CommandArgs(pr, FALSE, shared, parallel, FALSE)
    /\ \E sd \in {FullSequence, ConvergeSequence},
          sw \in {TestSequence, ConvergeSequence} :
          sequence = [d \in Dirs |-> IF d = "default" THEN sd ELSE sw]
    /\ prerun \in {[d \in Dirs |-> FALSE], [d \in Dirs |-> d # "default"],
                   [d \in Dirs |-> TRUE]}
    /\ provisioner = "ready"
    /\ persisted = FALSE
    /\ ephemeral = [n \in Names |-> TRUE]
    /\ Start

\* Variant of Excluded that excludes nothing.
Excluded_Never(name, ex) == FALSE

\* Lines 132 and 137: the name is in excludes.
Excluded(name, ex) == name \in ex

\* ------------------------------------------------- execute_cmdline_scenarios
\* Lines 124-142: discover the configs of the run.
Discover ==
    /\ pc = "discover"
    /\ IF ~scenario_names.given
       THEN LET r == get_configs(fs, MOLECULE_GLOB)
            IN  IF r.exc # NoExc
                THEN \* not inside a try: the exception leaves the function
                     /\ exc' = r.exc
                     /\ outcome' = [kind |-> "raised", exc |-> r.exc]
                     /\ pc' = "done"
                     /\ UNCHANGED <<configs, scenario_names>>
                ELSE /\ configs' = SelectSeq(r.configs,
                                       LAMBDA c : ~Excluded(NameOf(c), excludes))
                     /\ pc' = "default"
                     /\ UNCHANGED <<exc, outcome, scenario_names>>
       ELSE LET names == SelectSeq(scenario_names.names,
                                   LAMBDA n : ~Excluded(n, excludes))
                r == ExtendConfigs(fs, names, <<>>)
            IN  /\ scenario_names' = [given |-> TRUE, names |-> names]
                /\ configs' = r.configs
                /\ IF r.exc # NoExc
                   THEN \* except ScenarioFailureError: util.sysexit(code=exc.code)
                        /\ exc' = r.exc
                        /\ outcome' = [kind |-> "exit", exc |-> r.exc]
                        /\ pc' = "done"
                   ELSE /\ pc' = "default"
                        /\ UNCHANGED <<exc, outcome>>
    /\ UNCHANGED <<compensation, fs, excludes, command_args, sequence, prerun,
                   provisioner, persisted, default_config, all,
                   results, buffers, default_buffer, i, j, dispatched, failure,
                   ephemeral, reports, current_action, prepared, steps,
                   state_dir>>

\* Lines 144-151: look the default scenario up, build the scenario set.
ResolveDefault ==
    /\ pc = "default"
    /\ LET default_glob == Replace(MOLECULE_GLOB, MOLECULE_DEFAULT_SCENARIO_NAME)
           r == get_configs(fs, default_glob)
       IN  default_config' = IF r.exc = NoExc THEN r.configs[1] ELSE NoConfig
    /\ all' = ScenariosAll(configs, scenario_names)
    /\ buffers' = [k \in 1..Len(configs) |-> <<>>]
    /\ current_action' = [k \in 0..Len(configs) |-> ""]
    /\ prepared' = [k \in 0..Len(configs) |-> persisted]
    /\ pc' = "create"
    /\ UNCHANGED <<compensation, inputs, configs, results, default_buffer, i, j, dispatched,
                   exc, failure, ephemeral, reports, outcome, steps, state_dir>>

\* ---------------------------------------------------------- dispatching
\* One execute_subcommand(config, action) call: the scenario name of the
\* config, the Scenario object (0: the default config's, k: all[k]) and
\* the action.
Call(cfg, obj, action) == [scn |-> NameOf(cfg), obj |-> obj, action |-> action]

\* One entry of the step log: the object and scenario acted on, the step,
\* its arguments, and how many execute_subcommand calls had begun.
Step(obj, cfg, step, arg, at) ==
    [obj |-> obj, scn |-> NameOf(cfg), step |-> step, arg |-> arg, at |-> at]

\* Base._setup, lines 96-99: the steps of the construction of a handler;
\* the provisioner's two only when the config has a provisioner.
SetupSteps_ProvisionerAlways(prov) ==
    <<"config.write", "write_config", "manage_inventory">>

SetupSteps(prov) ==
    <<"config.write">> \o
    IF prov # "none" THEN <<"write_config", "manage_inventory">> ELSE <<>>

\* A step of _setup raised an exception that is not a ScenarioFailureError.
SetupExc(step) == [kind |-> "other", code |-> 0, what |-> step]

\* execute_subcommand, lines 301-310: what the call can do. An action
\* without a module fails in import_module; the call of a known action
\* returns, or raises in _setup or in the handler's execute.
OutcomesOf(action, prov) ==
    IF action \in KnownActions
    THEN Outcomes \cup {SetupExc(SetupSteps(prov)[n]) : n \in 1..Len(SetupSteps(prov))}
    ELSE {ResolutionError}

\* Variant of Marked that sets the marker before the handler is resolved.
Marked_BeforeResolution(marks, obj, action) ==
    [marks EXCEPT ![obj] = action]

\* execute_subcommand, line 308: current_config.action after the call.
Marked(marks, obj, action) ==
    IF action \in KnownActions THEN [marks EXCEPT ![obj] = action] ELSE marks

\* Variant of PrepareSkips that ignores the prepared flag.
PrepareSkips_Never(flag, args) == FALSE

\* Prepare.execute, line 101: the instances are already prepared.
PrepareSkips(flag, args) == flag /\ ~args.force

\* Prepare.execute, lines 101-112: the call reaches provisioner.prepare().
PrepareInvokes(flag, args, prov) ==
    /\ ~PrepareSkips(flag, args)
    /\ prov # "none"
    /\ prov # "no_playbook"

\* Whether the call invoked provisioner.prepare(): always when it returned,
\* never when _setup raised, and possibly not when execute raised (the
\* exception may come from what precedes line 112).
InvokedChoices(action, flag, args, prov, o) ==
    IF action = "prepare" /\ PrepareInvokes(flag, args, prov)
    THEN IF o = NoExc THEN {TRUE}
         ELSE IF o.what \in Range(SetupSteps(prov)) THEN {FALSE}
         ELSE BOOLEAN
    ELSE {FALSE}

\* The steps of _setup that were begun when the call ended with o.
SetupDone(prov, o) ==
    LET all_steps == SetupSteps(prov)
    IN  IF o.what \in Range(all_steps)
        THEN SubSeq(all_steps, 1,
                    CHOOSE n \in 1..Len(all_steps) : all_steps[n] = o.what)
        ELSE all_steps

\* execute_subcommand, lines 308-310: the marker is set, the handler is
\* constructed (Base.__init__ runs _setup) and its execute is called.
HandlerSteps(cfg, obj, action, prov, invoked, at, o) ==
    IF action \notin KnownActions THEN <<>>
    ELSE <<Step(obj, cfg, "marker", <<action>>, at)>> \o
         [n \in 1..Len(SetupDone(prov, o)) |->
             Step(obj, cfg, SetupDone(prov, o)[n], <<>>, at)] \o
         (IF o.what \in Range(SetupSteps(prov)) THEN <<>>
          ELSE <<Step(obj, cfg, "handler", <<action>>, at)>>) \o
         (IF invoked THEN <<Step(obj, cfg, "provisioner.prepare", <<>>, at)>>
          ELSE <<>>)

\* Variant of ChangeState that marks the scenario prepared in every
\* prepare that returned.
ChangeState_EveryPrepare(flags, obj, action, invoked, o) ==
    IF action = "prepare" /\ o = NoExc
    THEN [flags EXCEPT ![obj] = TRUE]
    ELSE flags

\* Prepare.execute, line 113: state.change_state("prepared", value=True).
ChangeState(flags, obj, action, invoked, o) ==
    IF action = "prepare" /\ invoked /\ o = NoExc
    THEN [flags EXCEPT ![obj] = TRUE]
    ELSE flags

\* Variant of DefaultOwns in which the default scenario runs create only.
DefaultOwns_CreateOnly(cfg, args, seqs, subcommand) ==
    /\ ~(cfg = NoConfig \/ ~shared_data(args))
    /\ subcommand \in Range(seqs[cfg])
    /\ subcommand = "create"

\* Variant of DefaultOwns that does not look at shared_data.
DefaultOwns_IgnoreShared(cfg, args, seqs, subcommand) ==
    /\ cfg # NoConfig
    /\ subcommand \in Range(seqs[cfg])

\* execute_subcommand_default, lines 272-277: the default scenario runs
\* the subcommand.
DefaultOwns(cfg, args, seqs, subcommand) ==
    /\ ~(cfg = NoConfig \/ ~shared_data(args))
    /\ subcommand \in Range(seqs[cfg])

\* Variant of Skipped that ignores destroy only.
Skipped_DestroyOnly(args, action) ==
    shared_data(args) /\ action = "destroy"

\* execute_scenario, line 321: the action is ignored.
Skipped(args, action) ==
    shared_data(args) /\ action \in {"create", "destroy"}

\* Variant of ShouldPrune that prunes only when the destroy argument is
\* "always".
ShouldPrune_OnlyAlways(args, seq) ==
    /\ ~shared_data(args)
    /\ "destroy" \in Range(seq)
    /\ args.destroy = "always"

\* execute_scenario, lines 327-331: the scenario is pruned after its sequence.
ShouldPrune(args, seq) ==
    /\ ~shared_data(args)
    /\ "destroy" \in Range(seq)
    /\ args.destroy # "never"

\* Config.is_parallel: the run isolates the state of each scenario.
is_parallel(args) == args.parallel = TRUE

\* _run_scenarios, line 232: the failure is compensated by cleanup and destroy.
Compensates(args) == args.destroy = "always"

\* Variant of IsReset that never takes the reset short-circuit.
IsReset_Never(args) == FALSE

\* _run_scenarios, line 222: the run is a reset.
IsReset(args) == args.subcommand = "reset"

\* Variant of AfterFailure in which an uncompensated failure still runs
\* the trailing destroy.
AfterFailure_Trailing(args, o) ==
    IF o.kind = "sfe" /\ Compensates(args) THEN "cleanup" ELSE "final_destroy"

\* Where the run goes when an action of a scenario raised o.
AfterFailure(args, o) ==
    IF o.kind = "sfe" /\ Compensates(args) THEN "cleanup" ELSE "handler"

\* The first failure of the run is kept for the record: the exception, the
\* scenario and action, and the index of the failing call (0: no call).
Failed(o, cfg, obj, action, at) ==
    IF failure.exc = NoExc
    THEN [exc |-> o, scn |-> NameOf(cfg), action |-> action, obj |-> obj,
          at |-> at]
    ELSE failure

\* scenario.prune(): the ephemeral directory of the scenario is removed.
Pruned(eph, name) == [eph EXCEPT ![name] = FALSE]

\* scenario._remove_scenario_state_directory() of a parallel run.
StateDirRemoved(dirs, args, name) ==
    IF is_parallel(args) THEN [dirs EXCEPT ![name] = FALSE] ELSE dirs

\* Lines 332-335 and 247-250: prune, and in a parallel run remove the
\* state directory.
PruneSteps(cfg, obj, args, at) ==
    <<Step(obj, cfg, "prune", <<>>, at)>> \o
    IF is_parallel(args) THEN <<Step(obj, cfg, "remove_state_dir", <<>>, at)>>
    ELSE <<>>

\* Variant of PrerunSteps that does not look at the prerun flag.
PrerunSteps_Always(cfg, obj, flags, at) ==
    <<Step(obj, cfg, "prepare_environment",
           <<"install_local=True", role_name_check(cfg)>>, at)>>

\* Lines 214-220: the prerun of a scenario whose config flags it:
\* prepare_environment(install_local=True, role_name_check=...).
PrerunSteps(cfg, obj, flags, at) ==
    IF flags[cfg]
    THEN <<Step(obj, cfg, "prepare_environment",
                <<"install_local=True", role_name_check(cfg)>>, at)>>
    ELSE <<>>

\* Lines 228, 241, 245 and execute_subcommand_default, line 279: one
\* record of scenarios.results.
Record(name, buf) == [name |-> name, results |-> buf]

\* Variant of Appended that replaces the list by the new record.
Appended_Replacing(res, rec) == <<rec>>

\* scenarios.results.append(record).
Appended(res, rec) == Append(res, rec)

\* ------------------------------------------------------------ _run_scenarios
\* Lines 209-211: the leading create of the default scenario.
InitialCreate ==
    /\ pc = "create"
    /\ IF DefaultOwns(default_config, command_args, sequence, "create")
       THEN \E o \in OutcomesOf("create", provisioner) :
            /\ dispatched' = Append(dispatched, Call(default_config, 0, "create"))
            /\ current_action' = Marked(current_action, 0, "create")
            /\ steps' = steps \o HandlerSteps(default_config, 0, "create", provisioner,
                                              FALSE, Len(dispatched'), o)
            /\ IF o = NoExc
               THEN /\ results' = Appended(results,
                          Record(NameOf(default_config),
                                 Append(default_buffer, "create")))
                    /\ default_buffer' = <<>>
                    /\ pc' = "loop"
                    /\ UNCHANGED <<exc, failure>>
               ELSE /\ exc' = o
                    /\ failure' = Failed(o, default_config, 0, "create",
                                         Len(dispatched'))
                    /\ pc' = "handler"
                    /\ UNCHANGED <<results, default_buffer>>
       ELSE /\ pc' = "loop"
            /\ UNCHANGED <<dispatched, results, default_buffer, exc, failure,
                           current_action, steps>>
    /\ UNCHANGED <<compensation, inputs, configs, default_config, all, buffers, i, j,
                   ephemeral, reports, outcome, prepared, state_dir>>

\* Lines 213-225: the head of the scenario loop: the prerun of the
\* scenario, and the reset short-circuit.
LoopHead ==
    /\ pc = "loop"
    /\ IF i > Len(all)
       THEN /\ pc' = "final_destroy"
            /\ UNCHANGED <<exc, failure, ephemeral, j, steps>>
       ELSE LET ran == PrerunSteps(all[i], i, prerun, Len(dispatched))
            IN  IF IsReset(command_args)
                THEN IF ephemeral[NameOf(all[i])]
                     THEN \* shutil.rmtree, then return
                          /\ ephemeral' = Pruned(ephemeral, NameOf(all[i]))
                          /\ steps' = steps \o ran \o
                                <<Step(i, all[i], "rmtree", <<>>, Len(dispatched))>>
                          /\ pc' = "handler"
                          /\ UNCHANGED <<exc, failure, j>>
                     ELSE \* shutil.rmtree raises FileNotFoundError
                          /\ exc' = RmtreeError
                          /\ failure' = Failed(exc', all[i], i, "rmtree", 0)
                          /\ steps' = steps \o ran \o
                                <<Step(i, all[i], "rmtree", <<>>, Len(dispatched))>>
                          /\ pc' = "handler"
                          /\ UNCHANGED <<ephemeral, j>>
                ELSE /\ pc' = "execute"
                     /\ j' = 1
                     /\ steps' = steps \o ran
                     /\ UNCHANGED <<exc, failure, ephemeral>>
    /\ UNCHANGED <<compensation, inputs, configs, default_config, all, results, buffers,
                   default_buffer, i, dispatched, reports, outcome,
                   current_action, prepared, state_dir>>

\* execute_scenario, lines 320-323: create and destroy are ignored.
SkipAction ==
    /\ pc = "execute"
    /\ j <= Len(sequence[all[i]])
    /\ Skipped(command_args, sequence[all[i]][j])
    /\ j' = j + 1
    /\ UNCHANGED <<compensation, inputs, pc, configs, default_config, all, results, buffers,
                   default_buffer, i, dispatched, exc, failure, ephemeral,
                   reports, outcome, current_action, prepared, steps, state_dir>>

\* execute_scenario, line 325: the next action of the sequence is
\* dispatched; Prepare.execute, lines 101-113, when it is prepare.
ExecuteAction ==
    /\ pc = "execute"
    /\ j <= Len(sequence[all[i]])
    /\ ~Skipped(command_args, sequence[all[i]][j])
    /\ LET action == sequence[all[i]][j]
       IN  \E o \in OutcomesOf(action, provisioner) :
           \E invoked \in InvokedChoices(action, prepared[i], command_args,
                                         provisioner, o) :
           /\ dispatched' = Append(dispatched, Call(all[i], i, action))
           /\ current_action' = Marked(current_action, i, action)
           /\ steps' = steps \o HandlerSteps(all[i], i, action, provisioner,
                                             invoked, Len(dispatched'), o)
           /\ prepared' = ChangeState(prepared, i, action, invoked, o)
           /\ IF o = NoExc
              THEN /\ buffers' = [buffers EXCEPT ![i] = Append(@, action)]
                   /\ j' = j + 1
                   /\ UNCHANGED <<pc, exc, failure, compensation>>
              ELSE /\ exc' = o
                   /\ failure' = Failed(o, all[i], i, action, Len(dispatched'))
                   /\ pc' = AfterFailure(command_args, o)
                   /\ compensation' = IF pc' = "cleanup" THEN "running"
                                      ELSE compensation
                   /\ UNCHANGED <<buffers, j>>
    /\ UNCHANGED <<inputs, configs, default_config, all, results,
                   default_buffer, i, ephemeral, reports, outcome, state_dir>>

\* execute_scenario, lines 327-335, and _run_scenarios, line 228: the
\* sequence is over; prune, append the scenario's record, next scenario.
ExecuteEnd ==
    /\ pc = "execute"
    /\ j > Len(sequence[all[i]])
    /\ IF ShouldPrune(command_args, sequence[all[i]])
       THEN /\ ephemeral' = Pruned(ephemeral, NameOf(all[i]))
            /\ state_dir' = StateDirRemoved(state_dir, command_args,
                                            NameOf(all[i]))
            /\ steps' = steps \o PruneSteps(all[i], i, command_args,
                                            Len(dispatched))
       ELSE UNCHANGED <<ephemeral, state_dir, steps>>
    /\ results' = Appended(results, Record(NameOf(all[i]), buffers[i]))
    /\ i' = i + 1
    /\ pc' = "loop"
    /\ UNCHANGED <<compensation, inputs, configs, default_config, all, buffers,
                   default_buffer, j, dispatched, exc, failure, reports, outcome,
                   current_action, prepared>>

\* Line 238: the cleanup action against the failed scenario. An exception
\* raised here replaces the one being handled.
Cleanup ==
    /\ pc = "cleanup"
    /\ \E o \in OutcomesOf("cleanup", provisioner) :
       /\ dispatched' = Append(dispatched, Call(all[i], i, "cleanup"))
       /\ current_action' = Marked(current_action, i, "cleanup")
       /\ steps' = steps \o HandlerSteps(all[i], i, "cleanup", provisioner,
                                         FALSE, Len(dispatched'), o)
       /\ IF o = NoExc
          THEN /\ buffers' = [buffers EXCEPT ![i] = Append(@, "cleanup")]
               /\ pc' = "comp_destroy"
               /\ UNCHANGED <<exc, compensation>>
          ELSE /\ exc' = o
               /\ pc' = "handler"
               /\ compensation' = "failed"
               /\ UNCHANGED buffers
    /\ UNCHANGED <<inputs, configs, default_config, all, results,
                   default_buffer, i, j, failure, ephemeral, reports, outcome,
                   prepared, state_dir>>

\* Lines 239-245: destroy through the default scenario when it owns
\* destroy, else against the failed scenario; the records are appended.
CompensatingDestroy ==
    /\ pc = "comp_destroy"
    /\ LET shared == DefaultOwns(default_config, command_args, sequence, "destroy")
           cfg == IF shared THEN default_config ELSE all[i]
           obj == IF shared THEN 0 ELSE i
       IN  \E o \in OutcomesOf("destroy", provisioner) :
           /\ dispatched' = Append(dispatched, Call(cfg, obj, "destroy"))
           /\ current_action' = Marked(current_action, obj, "destroy")
           /\ steps' = steps \o HandlerSteps(cfg, obj, "destroy", provisioner,
                                             FALSE, Len(dispatched'), o)
           /\ IF o # NoExc
              THEN /\ exc' = o
                   /\ pc' = "handler"
                   /\ compensation' = "failed"
                   /\ UNCHANGED <<results, buffers, default_buffer>>
              ELSE /\ pc' = "comp_prune"
                   /\ UNCHANGED <<exc, compensation>>
                   /\ IF shared
                      THEN /\ results' = Appended(
                                 Appended(results,
                                          Record(NameOf(all[i]), buffers[i])),
                                 Record(NameOf(default_config),
                                        Append(default_buffer, "destroy")))
                           /\ default_buffer' = <<>>
                           /\ UNCHANGED buffers
                      ELSE /\ buffers' = [buffers EXCEPT ![i] = Append(@, "destroy")]
                           /\ results' = Appended(results,
                                 Record(NameOf(all[i]), buffers'[i]))
                           /\ UNCHANGED default_buffer
    /\ UNCHANGED <<inputs, configs, default_config, all, i, j, failure,
                   ephemeral, reports, outcome, prepared, state_dir>>

\* Lines 247-251: prune the failed scenario, then re-raise the failure.
CompensatingPrune ==
    /\ pc = "comp_prune"
    /\ ephemeral' = Pruned(ephemeral, NameOf(all[i]))
    /\ state_dir' = StateDirRemoved(state_dir, command_args, NameOf(all[i]))
    /\ steps' = steps \o PruneSteps(all[i], i, command_args, Len(dispatched))
    /\ compensation' = "done"
    /\ pc' = "handler"
    /\ UNCHANGED <<inputs, configs, default_config, all, results, buffers,
                   default_buffer, i, j, dispatched, exc, failure, reports,
                   outcome, current_action, prepared>>

\* Lines 254-256: the trailing destroy of the default scenario.
FinalDestroy ==
    /\ pc = "final_destroy"
    /\ pc' = "handler"
    /\ IF DefaultOwns(default_config, command_args, sequence, "destroy")
       THEN \E o \in OutcomesOf("destroy", provisioner) :
            /\ dispatched' = Append(dispatched, Call(default_config, 0, "destroy"))
            /\ current_action' = Marked(current_action, 0, "destroy")
            /\ steps' = steps \o HandlerSteps(default_config, 0, "destroy", provisioner,
                                              FALSE, Len(dispatched'), o)
            /\ IF o = NoExc
               THEN /\ results' = Appended(results,
                          Record(NameOf(default_config),
                                 Append(default_buffer, "destroy")))
                    /\ default_buffer' = <<>>
                    /\ UNCHANGED <<exc, failure>>
               ELSE /\ exc' = o
                    /\ failure' = Failed(o, default_config, 0, "destroy",
                                         Len(dispatched'))
                    /\ UNCHANGED <<results, default_buffer>>
       ELSE UNCHANGED <<dispatched, results, default_buffer, exc, failure,
                        current_action, steps>>
    /\ UNCHANGED <<compensation, inputs, configs, default_config, all, buffers, i, j,
                   ephemeral, reports, outcome, prepared, state_dir>>

\* execute_cmdline_scenarios, lines 156-157, and result_callback, line 550:
\* how the process ends for the exception that left _run_scenarios.
Exit(e) ==
    IF e.kind = "sfe" THEN [kind |-> "exit", exc |-> e]
    ELSE IF e.kind = "other" THEN [kind |-> "raised", exc |-> e]
    ELSE [kind |-> "exit", exc |-> NoExc]

\* Variant of Reported that prints the report of a successful run only.
Reported_OnSuccessOnly(args, n) ==
    IF args.report /\ exc = NoExc THEN n + 1 ELSE n

\* execute_cmdline_scenarios, lines 158-160: the report is printed.
Reported(args, n) == IF args.report THEN n + 1 ELSE n

\* Lines 153-160: the except and finally clauses around _run_scenarios.
Finish ==
    /\ pc = "handler"
    /\ outcome' = Exit(exc)
    /\ reports' = Reported(command_args, reports)
    /\ pc' = "done"
    /\ UNCHANGED <<compensation, inputs, configs, default_config, all, results, buffers,
                   default_buffer, i, j, dispatched, exc, failure, ephemeral,
                   current_action, prepared, steps, state_dir>>

Next ==
    \/ Discover
    \/ ResolveDefault
    \/ InitialCreate
    \/ LoopHead
    \/ SkipAction
    \/ ExecuteAction
    \/ ExecuteEnd
    \/ Cleanup
    \/ CompensatingDestroy
    \/ CompensatingPrune
    \/ FinalDestroy
    \/ Finish

Spec == Init /\ [][Next]_vars
SpecHandlers == InitHandlers /\ [][Next]_vars
SpecIsolation == InitIsolation /\ [][Next]_vars
SpecExcludes == InitExcludes /\ [][Next]_vars

\* The exit status of the ended process: the code given to util.sysexit,
\* the catch-all failure code when an exception ends the process.
ExitCode == IF outcome.kind = "raised" THEN DefaultCode ELSE outcome.exc.code
Done == pc = "done"

\* ================================================================ claims
\* The run was started by the reset subcommand.
ResetRun == command_args.subcommand = "reset"
Count(seq, Test(_)) == Cardinality({k \in 1..Len(seq) : Test(seq[k])})
IsCreate(c) == c.action = "create"
IsDestroy(c) == c.action = "destroy"
\* The run got past discovery and entered _run_scenarios.
Entered == pc \notin {"discover", "default", "create"} /\ outcome.exc.what \notin {"glob", "duplicate"}
\* An action dispatched by the scenario loop failed with ScenarioFailureError.
ScenarioActionFailed == failure.exc.kind = "sfe" /\ failure.obj # 0
DefaultOwnsCreate ==
    /\ default_config # NoConfig
    /\ shared_data(command_args)
    /\ "create" \in Range(sequence[default_config])

\* C1: when the default scenario exists with shared_data true and create in
\* its sequence, create is dispatched exactly once in the run, against the
\* default scenario and before any other action, and no scenario of the
\* set dispatches a create of its own.
C1_SharedCreateOnce ==
    (Entered /\ DefaultOwnsCreate) =>
        /\ Len(dispatched) >= 1
        /\ dispatched[1] = Call(default_config, 0, "create")
        /\ Count(dispatched, IsCreate) = 1
        /\ \A k \in 1..Len(dispatched) :
              dispatched[k].obj # 0 => dispatched[k].action # "create"

\* A finished shared run whose set holds a scenario with create in its sequence.
C1_Witness ==
    /\ Done /\ Entered /\ DefaultOwnsCreate /\ exc = NoExc
    /\ ~ResetRun
    /\ \E k \in 1..Len(all) : "create" \in Range(sequence[all[k]])
    /\ Len(all) = 2

\* C2: when an action of a scenario failed with ScenarioFailureError in
\* always-destroy mode, exactly one destroy is dispatched for that scenario
\* (through the default scenario or against the scenario itself) and its
\* ephemeral directory is gone when the run ends.
C2_DestroyOnceOnFailure ==
    (Done /\ ScenarioActionFailed /\ Compensates(command_args)) =>
        /\ Cardinality({k \in 1..Len(dispatched) :
                /\ dispatched[k].action = "destroy"
                /\ dispatched[k].obj \in {0, failure.obj}}) = 1
        /\ ~ephemeral[failure.scn]

\* C3: a run in which an action failed with ScenarioFailureError exits with
\* the code of that failure, in every destroy mode; a run without failure
\* exits with code 0.
C3_ExitCodeOfFailure ==
    Done =>
        /\ failure.exc.kind = "sfe" =>
              outcome.kind = "exit" /\ ExitCode = failure.exc.code
        /\ (Entered /\ failure.exc = NoExc) =>
              outcome.kind = "exit" /\ ExitCode = 0

\* C4: when the compensating cleanup or destroy itself fails, the failure
\* that leaves the run and gives the exit code is the original one.
C4_OriginalFailureKept ==
    (Done /\ compensation = "failed") => outcome = Exit(failure.exc)

\* C5 as stated: with reporting requested, every run prints the report
\* exactly once when it ends.
C5_ReportEveryRun ==
    (Done /\ command_args.report) => reports = 1

\* C5 as amended: with reporting requested, every run that got past
\* discovery prints the report exactly once when it ends, whatever failed
\* in _run_scenarios; a run whose discovery failed prints none, and
\* without the request none is printed.
C5_ReportOnceAfterDiscovery ==
    /\ (Done /\ command_args.report /\ Entered) => reports = 1
    /\ (Done /\ command_args.report /\ ~Entered) => reports = 0
    /\ ~Done => reports = 0
    /\ ~command_args.report => reports = 0

\* A reported run in which the compensation failed with another exception
\* than the original failure.
C5_Witness ==
    /\ Done /\ command_args.report /\ reports = 1
    /\ compensation = "failed"
    /\ exc.kind = "other"

\* The names the run asks for, the excluded ones filtered out.
Requested == SelectSeq(scenario_names.names, LAMBDA n : n \notin excludes)
\* Every descriptor the patterns of the run match, before verification.
Discovered ==
    IF ~scenario_names.given THEN Glob(fs, MOLECULE_GLOB)
    ELSE Concat([k \in 1..Len(Requested) |->
                   Glob(fs, Replace(MOLECULE_GLOB, Requested[k]))])
\* A pattern of the run matches no descriptor.
SomePatternEmpty ==
    IF ~scenario_names.given THEN Glob(fs, MOLECULE_GLOB) = <<>>
    ELSE \E k \in 1..Len(Requested) :
            Glob(fs, Replace(MOLECULE_GLOB, Requested[k])) = <<>>
\* The dispatched actions as (action, scenario name) pairs.
Trace == [k \in 1..Len(dispatched) |-> <<dispatched[k].action, dispatched[k].scn>>]
\* The actions dispatched against the Scenario object obj, in order.
ActionsOf(obj) ==
    LET calls == SelectSeq(dispatched, LAMBDA c : c.obj = obj)
    IN  [k \in 1..Len(calls) |-> calls[k].action]

\* C6: when two configs discovered for the run share a name, discovery
\* fails with a ScenarioFailureError and nothing is dispatched, for one
\* pattern as for the concatenation of the per-name discoveries.
C6_DuplicateNamesRejected ==
    (pc # "discover" /\ HasDuplicate(Discovered)) =>
        /\ Done
        /\ outcome.exc.kind = "sfe"
        /\ outcome.exc.what \in {"duplicate", "glob"}
        /\ dispatched = <<>>

\* C7: when a pattern of the run matches no descriptor, discovery fails
\* with the ScenarioFailureError of the failed glob instead of an empty
\* list, the run ends with the exit code of that error, and nothing is
\* dispatched.
C7_EmptyGlobFails ==
    (pc # "discover" /\ SomePatternEmpty) =>
        /\ Done
        /\ outcome.kind \in {"exit", "raised"}
        /\ outcome.exc = GlobFailed
        /\ ExitCode = GlobFailed.code
        /\ ExitCode # 0
        /\ dispatched = <<>>
        /\ all = <<>>

\* A run for two requested names, the second of which has no descriptor.
C7_Witness ==
    /\ Done /\ SomePatternEmpty
    /\ scenario_names.given /\ Len(Requested) = 2
    /\ Requested[1] \in fs /\ Requested[2] \notin fs
    /\ outcome.kind = "exit"

\* C8: when the default scenario is not found the run goes on without
\* shared state: nothing is dispatched through the default scenario and
\* every scenario of the set dispatches its whole sequence, create and
\* destroy included.
C8_NoDefaultRunsInline ==
    (Done /\ Entered /\ default_config = NoConfig /\ exc = NoExc
          /\ ~ResetRun) =>
        /\ ActionsOf(0) = <<>>
        /\ \A k \in 1..Len(all) : ActionsOf(k) = sequence[all[k]]

\* C9 as stated: a reset run dispatches no action at all, removes the
\* ephemeral directory of the scenario and ends without another scenario.
C9_ResetDispatchesNothing ==
    ResetRun =>
        /\ dispatched = <<>>
        /\ (Done /\ Entered /\ all # <<>> /\ exc = NoExc) =>
              ~ephemeral[NameOf(all[1])] /\ i = 1

\* C9 as amended: a reset run dispatches no action against a scenario of
\* the set (no sequence action, no cleanup, no destroy); it removes the
\* ephemeral directory of the first scenario of the set and returns
\* without another scenario. What it can still dispatch goes through the
\* shared default scenario: the leading create and, only when the set is
\* empty, the trailing destroy.
C9_ResetSkipsTheSet ==
    ResetRun =>
        /\ \A k \in 1..Len(dispatched) :
              /\ dispatched[k].obj = 0
              /\ dispatched[k].action = "create" \/ all = <<>>
        /\ Count(dispatched, IsCreate) <= 1
        /\ Count(dispatched, IsDestroy) <= 1
        /\ (Done /\ Entered /\ all # <<>> /\ exc = NoExc) =>
              /\ ~ephemeral[NameOf(all[1])]
              /\ \A n \in Names \ {NameOf(all[1])} : ephemeral[n]
              /\ i = 1
              /\ \A k \in 1..Len(results) : results[k].name = NameOf(default_config)
        /\ compensation = "none"

\* A finished reset of a set of two scenarios whose sequences hold actions.
C9_Witness ==
    /\ Done /\ ResetRun /\ Len(all) = 2 /\ exc = NoExc
    /\ ~ephemeral[NameOf(all[1])]
    /\ dispatched = <<Call(default_config, 0, "create")>>

ExampleRun ==
    /\ Done /\ exc = NoExc /\ ~ResetRun
    /\ shared_data(command_args)
    /\ default_config = "default"
    /\ sequence["default"] = FullSequence
    /\ sequence["web"] = TestSequence

\* C10 as stated: for the discovered scenarios default (create, prepare,
\* converge, destroy; shared) and web (create, converge, destroy) the run
\* dispatches create(default), converge(web), destroy(default) and the
\* results are the three records of these.
C10_ExampleTrace ==
    (ExampleRun /\ all = <<"default", "web">>) =>
        /\ Trace = << <<"create", "default">>, <<"converge", "web">>,
                      <<"destroy", "default">> >>
        /\ results = << [name |-> "default", results |-> <<"create">>],
                        [name |-> "web", results |-> <<"converge">>],
                        [name |-> "default", results |-> <<"destroy">>] >>

\* C10 as amended: the stated trace and results are those of the run whose
\* scenario set is web alone, the default scenario being found by the
\* separate lookup; when default is itself in the set, its prepare and
\* converge are dispatched in the loop as well and its record is added.
C10_ExampleTraceOfSet ==
    /\ (ExampleRun /\ all = <<"web">>) =>
        /\ Trace = << <<"create", "default">>, <<"converge", "web">>,
                      <<"destroy", "default">> >>
        /\ results = << [name |-> "default", results |-> <<"create">>],
                        [name |-> "web", results |-> <<"converge">>],
                        [name |-> "default", results |-> <<"destroy">>] >>
    /\ (ExampleRun /\ all = <<"default", "web">>) =>
        /\ Trace = << <<"create", "default">>, <<"prepare", "default">>,
                      <<"converge", "default">>, <<"converge", "web">>,
                      <<"destroy", "default">> >>
        /\ results = << [name |-> "default", results |-> <<"create">>],
                        [name |-> "default", results |-> <<"prepare", "converge">>],
                        [name |-> "web", results |-> <<"converge">>],
                        [name |-> "default", results |-> <<"destroy">>] >>

\* The finished example run over the set default, web.
C10_Witness == ExampleRun /\ all = <<"default", "web">> /\ Len(results) = 4

\* The actions the scenario loop dispatched against object k, in order:
\* the calls up to the failing one when an action of k failed.
LoopCalls(k) ==
    LET idx == SelectSeq([n \in 1..Len(dispatched) |-> n],
                   LAMBDA n : /\ dispatched[n].obj = k
                              /\ (failure.obj = k /\ failure.at > 0) => n <= failure.at)
    IN  [n \in 1..Len(idx) |-> dispatched[idx[n]].action]
\* The first n actions of the sequence of all[k] without those the shared
\* mode leaves to the default scenario.
Expected(k, n) ==
    SelectSeq(SubSeq(sequence[all[k]], 1, n),
              LAMBDA a : ~(command_args.shared_state /\ a \in {"create", "destroy"}))
\* An action dispatched by execute_scenario for all[k] failed.
FailedIn(k) == k >= 1 /\ failure.obj = k /\ failure.at > 0

\* C11: execute_scenario dispatches the actions of the scenario's sequence
\* in order, one call per occurrence, leaving out create and destroy in
\* shared-state mode and nothing otherwise; it stops at the first failing
\* action, dispatches none of the sequence after it, and the failure is
\* the exception that leaves it.
C11_SequenceInOrder ==
    Entered =>
        /\ \A k \in 1..Len(all) :
              /\ (k < i) => LoopCalls(k) = Expected(k, Len(sequence[all[k]]))
              /\ (k > i) => LoopCalls(k) = <<>>
              /\ (k = i /\ pc = "execute") => LoopCalls(k) = Expected(k, j - 1)
              /\ FailedIn(k) =>
                    /\ k = i
                    /\ LoopCalls(k) = Expected(k, j)
                    /\ sequence[all[k]][j] = failure.action
                    /\ \A n \in (failure.at + 1)..Len(dispatched) :
                          dispatched[n].action \in {"cleanup", "destroy"}
        /\ (FailedIn(failure.obj) /\ compensation \in {"none", "running"}) =>
              exc = failure.exc

\* A shared run whose second scenario failed at converge after the first
\* ran its sequence without create and destroy.
C11_Witness ==
    /\ Done /\ command_args.shared_state /\ FailedIn(2)
    /\ failure.action = "converge"
    /\ sequence[all[1]] = FullSequence
    /\ LoopCalls(1) = <<"prepare", "converge">>
    /\ "create" \in Range(sequence[all[2]])

\* The prune and state-directory steps logged for object k.
PruneLog(k) ==
    SelectSeq(steps, LAMBDA s : s.obj = k /\ s.step \in {"prune", "remove_state_dir"})
\* The index of the last call made against object k (0: none).
LastCall(k) ==
    LET ns == {n \in 1..Len(dispatched) : dispatched[n].obj = k}
    IN  IF ns = {} THEN 0 ELSE CHOOSE n \in ns : \A m \in ns : m <= n
\* The conditions of a prune after the sequence of all[k].
PruneDue(k) ==
    /\ ~command_args.shared_state
    /\ "destroy" \in Range(sequence[all[k]])
    /\ command_args.destroy # "never"

\* C12: after execute_scenario dispatched the whole sequence of a scenario
\* without failure, the scenario is pruned exactly when shared-state mode
\* is off, destroy is in its sequence and the destroy argument is not
\* "never", and its state directory is removed exactly when in addition
\* the run is parallel; the prune comes after the last action, and
\* execute_scenario prunes nothing while the sequence runs or when one of
\* its actions failed.
C12_PruneAfterSequence ==
    Entered =>
        \A k \in 1..Len(all) :
           /\ (k < i) =>
                 /\ PruneLog(k) =
                       IF ~PruneDue(k) THEN <<>>
                       ELSE <<Step(k, all[k], "prune", <<>>, LastCall(k))>> \o
                            IF command_args.parallel
                            THEN <<Step(k, all[k], "remove_state_dir", <<>>,
                                        LastCall(k))>>
                            ELSE <<>>
                 /\ PruneDue(k) =>
                       /\ ~ephemeral[NameOf(all[k])]
                       /\ command_args.parallel => ~state_dir[NameOf(all[k])]
           /\ (k = i /\ pc = "execute") => PruneLog(k) = <<>>
           /\ FailedIn(k) =>
                 \A n \in 1..Len(PruneLog(k)) : PruneLog(k)[n].at > failure.at

\* A finished parallel run without a destroy argument in which both
\* scenarios of the set were pruned and lost their state directories.
C12_Witness ==
    /\ Done /\ failure.exc = NoExc /\ Len(all) = 2 /\ i = 3
    /\ command_args.parallel /\ command_args.destroy = "unset"
    /\ PruneDue(1) /\ PruneDue(2)
    /\ Len(PruneLog(2)) = 2
    /\ ~state_dir[NameOf(all[2])]

\* The default scenario exists, shares its state and has destroy in its
\* sequence.
DefaultOwnsDestroy ==
    /\ default_config # NoConfig
    /\ command_args.shared_state
    /\ "destroy" \in Range(sequence[default_config])
\* The calls that dispatch destroy against the default config's scenario.
SharedDestroys == {n \in 1..Len(dispatched) :
                      dispatched[n] = Call(default_config, 0, "destroy")}
\* The loop ran to its end: every scenario of the set completed.
AllCompleted == Entered /\ i > Len(all) /\ failure.obj = 0 /\ failure.action # "create"

\* C13: once every scenario of the set has completed without failure, a
\* default scenario that shares its state and has destroy in its sequence
\* gets destroy dispatched exactly once, as the last call of the run, and
\* its record is the last one appended; in no run is the shared destroy of
\* the default scenario dispatched more than once.
C13_SharedDestroyOnceLast ==
    /\ (Done /\ AllCompleted /\ DefaultOwnsDestroy) =>
          /\ SharedDestroys = {Len(dispatched)}
          /\ failure.exc = NoExc =>
                /\ Len(results) >= 1
                /\ results[Len(results)] =
                      Record(NameOf(default_config), <<"destroy">>)
    /\ Cardinality(SharedDestroys) <= 1
    /\ SharedDestroys # {} => DefaultOwnsDestroy

\* A finished shared run over two scenarios, without failure, closed by
\* the destroy of the default scenario.
C13_Witness ==
    /\ Done /\ AllCompleted /\ DefaultOwnsDestroy /\ failure.exc = NoExc
    /\ Len(all) = 2 /\ Len(dispatched) >= 4
    /\ results[Len(results)].results = <<"destroy">>

\* The calls of a run that dispatches, for each scenario of the set in
\* turn, every action of its sequence against the scenario itself.
InlineCalls ==
    Concat([k \in 1..Len(all) |->
               [m \in 1..Len(sequence[all[k]]) |->
                   Call(all[k], k, sequence[all[k]][m])]])
\* One record per scenario of the set, holding its whole sequence.
InlineRecords ==
    [k \in 1..Len(all) |-> Record(NameOf(all[k]), sequence[all[k]])]

\* C14: without shared state a scenario named default is a scenario like
\* any other: nothing is dispatched through the default config, neither a
\* leading create nor a trailing destroy; its create and destroy are
\* dispatched inline, in its own sequence; and the calls and records of a
\* run name the scenario only as a label, so that they are those of the
\* same run with the scenario under another name.
C14_UnsharedDefaultIsOrdinary ==
    (Entered /\ ~command_args.shared_state) =>
        /\ \A n \in 1..Len(dispatched) : dispatched[n].obj # 0
        /\ \A k \in 1..Len(all) :
              (k < i) => LoopCalls(k) = sequence[all[k]]
        /\ (Done /\ failure.exc = NoExc /\ ~ResetRun) =>
              /\ dispatched = InlineCalls
              /\ results = InlineRecords

\* A finished run without shared state over default and web, in which the
\* default scenario ran its own create and destroy.
C14_Witness ==
    /\ Done /\ ~command_args.shared_state /\ failure.exc = NoExc /\ ~ResetRun
    /\ default_config = "default"
    /\ all = <<"default", "web">>
    /\ sequence["default"] = FullSequence
    /\ dispatched[1] = Call("default", 1, "create")
    /\ dispatched[4] = Call("default", 1, "destroy")
    /\ results[1] = Record("default", FullSequence)

\* The calls in which provisioner.prepare() was invoked for object k.
PrepareInvocations(k) ==
    {n \in 1..Len(steps) : steps[n].obj = k /\ steps[n].step = "provisioner.prepare"}
\* The calls that dispatched prepare against object k.
PrepareCalls(k) ==
    {n \in 1..Len(dispatched) : dispatched[n] = Call(all[k], k, "prepare")}

\* C15: within one run and without force, provisioner.prepare() is invoked
\* at most once for a scenario however often prepare is dispatched against
\* it: a prepare dispatched after one that succeeded, or on a scenario
\* whose state already says prepared, is skipped.
C15_PrepareAtMostOnce ==
    (Entered /\ ~command_args.force) =>
        \A k \in 1..Len(all) :
           /\ Cardinality(PrepareInvocations(k)) <= 1
           /\ persisted => PrepareInvocations(k) = {}
           /\ \A n \in PrepareInvocations(k), c \in PrepareCalls(k) :
                 steps[n].at <= c
           /\ prepared[k] =>
                 \/ persisted
                 \/ \E n \in PrepareInvocations(k) : steps[n].at # failure.at

\* A finished run without force in which prepare was dispatched twice
\* against the first scenario and the provisioner prepared it once, in
\* the first of the two.
C15_Witness ==
    /\ Done /\ ~command_args.force /\ failure.exc = NoExc
    /\ Len(all) >= 1
    /\ Cardinality(PrepareCalls(1)) = 2
    /\ Cardinality(PrepareInvocations(1)) = 1
    /\ \A n \in PrepareInvocations(1), c \in PrepareCalls(1) : steps[n].at <= c
    /\ prepared[1]

\* C16: deleting the ephemeral directory of a scenario is idempotent on
\* every path of the run (prune after the sequence, prune after a
\* failure, reset): no deletion fails because the directory is absent,
\* and a reset of a scenario without an ephemeral directory ends without
\* failure.
C16_DeletionIdempotent ==
    /\ exc # RmtreeError
    /\ (Done /\ ResetRun /\ Len(steps) >= 1 /\ steps[Len(steps)].step = "rmtree") =>
          outcome = Exit(NoExc)

\* The calls that dispatched an action name without a handler.
UnknownCalls == {n \in 1..Len(dispatched) : dispatched[n].action \notin KnownActions}
\* The action of the last call before call n against the same object that
\* found its handler ("": none).
MarkerBefore(n) ==
    LET ns == {m \in 1..(n - 1) : /\ dispatched[m].obj = dispatched[n].obj
                                  /\ dispatched[m].action \in KnownActions}
    IN  IF ns = {} THEN ""
        ELSE dispatched[CHOOSE m \in ns : \A l \in ns : l <= m].action

\* C17: dispatching an action name that has no handler fails with a
\* resolution error that reaches the caller of the run: it is not
\* swallowed, no handler is invoked in its place, no action is dispatched
\* after it, it is not dispatched again, and the current-action marker of
\* the scenario's config stays what it was.
C17_UnknownActionFails ==
    \A n \in UnknownCalls :
       /\ n = Len(dispatched)
       /\ failure.exc = ResolutionError /\ failure.at = n
       /\ exc = ResolutionError
       /\ compensation = "none"
       /\ pc \in {"handler", "done"}
       /\ Done => outcome = [kind |-> "raised", exc |-> ResolutionError]
       /\ \A m \in 1..Len(steps) : steps[m].at = n => steps[m].step # "handler"
       /\ current_action[dispatched[n].obj] = MarkerBefore(n)

\* A finished run in always-destroy mode that dispatched the unknown
\* action after converge: the marker still says converge.
C17_Witness ==
    /\ Done /\ UnknownCalls # {} /\ Compensates(command_args)
    /\ Len(dispatched) >= 2
    /\ dispatched[Len(dispatched)].action = "bogus"
    /\ current_action[dispatched[Len(dispatched)].obj] = "converge"
    /\ outcome.kind = "raised"

\* The prerun steps logged for object k.
PrerunOf(k) == SelectSeq(steps, LAMBDA s : s.obj = k /\ s.step = "prepare_environment")
\* The loop reached scenario k: its iteration began.
Reached(k) ==
    /\ Entered
    /\ \/ k < i
       \/ k = i /\ pc # "loop" /\ ~(failure.obj = 0 /\ failure.action = "create")

\* C18 as stated: for every scenario of the set whose config flags
\* prerun, prepare_environment is invoked exactly once, with install_local
\* true and the role_name_check of its config, before any action is
\* dispatched against that scenario.
C18_PrerunEveryFlagged ==
    (Done /\ Entered) =>
        \A k \in 1..Len(all) :
           prerun[all[k]] =>
              /\ Len(PrerunOf(k)) = 1
              /\ PrerunOf(k)[1].arg = <<"install_local=True", role_name_check(all[k])>>
              /\ \A n \in 1..Len(dispatched) :
                    dispatched[n].obj = k => PrerunOf(k)[1].at < n

\* C18 as amended: prepare_environment is invoked, with install_local true
\* and the role_name_check of the config, exactly once for every flagged
\* scenario whose iteration of the loop began, before any action the loop
\* dispatches against it and after the leading create of a sharing
\* default scenario; a flagged scenario that the loop never reaches (a
\* failure or a reset ended the run before it) gets none, and neither
\* does a scenario that is not flagged.
C18_PrerunOfReached ==
    \A k \in 1..Len(all) :
       IF prerun[all[k]] /\ Reached(k)
       THEN /\ Len(PrerunOf(k)) = 1
            /\ PrerunOf(k)[1].arg = <<"install_local=True", role_name_check(all[k])>>
            /\ PrerunOf(k)[1].scn = NameOf(all[k])
            /\ \A n \in 1..Len(dispatched) :
                  dispatched[n].obj = k => PrerunOf(k)[1].at < n
            /\ (DefaultOwnsCreate /\ dispatched # <<>>) => PrerunOf(k)[1].at >= 1
       ELSE PrerunOf(k) = <<>>

\* A finished run over two flagged scenarios in which the first failed:
\* it had its prerun, the second never got one.
C18_Witness ==
    /\ Done /\ Len(all) = 2 /\ FailedIn(1)
    /\ prerun[all[1]] /\ prerun[all[2]]
    /\ Len(PrerunOf(1)) = 1 /\ PrerunOf(2) = <<>>
    /\ PrerunOf(1)[1].at < failure.at

\* The number of records appended before the loop reached scenario k.
RecordsBefore(k) == (IF DefaultOwnsCreate THEN 1 ELSE 0) + (k - 1)

\* C19: when an action of a scenario failed with ScenarioFailureError in
\* always-destroy mode, the record of the failed scenario is appended
\* exactly once: followed directly by the destroy record of the default
\* scenario when the shared destroy ran, and holding the scenario's own
\* destroy when it was destroyed directly; its ephemeral state is pruned
\* after the destroy, and its state directory removed in a parallel run.
C19_FailedRecordOnce ==
    (Done /\ ScenarioActionFailed /\ FailedIn(failure.obj)
          /\ command_args.destroy = "always") =>
        LET k == failure.obj
            own == Record(NameOf(all[k]), buffers[k])
        IN  /\ IF DefaultOwnsDestroy
               THEN /\ Len(results) = RecordsBefore(k) + 2
                    /\ results[Len(results) - 1] = own
                    /\ results[Len(results)] =
                          Record(NameOf(default_config), <<"destroy">>)
               ELSE /\ Len(results) = RecordsBefore(k) + 1
                    /\ results[Len(results)] = own
                    /\ own.results[Len(own.results)] = "destroy"
            /\ PruneLog(k) =
                  <<Step(k, all[k], "prune", <<>>, Len(dispatched))>> \o
                  IF command_args.parallel
                  THEN <<Step(k, all[k], "remove_state_dir", <<>>, Len(dispatched))>>
                  ELSE <<>>
            /\ dispatched[Len(dispatched)].action = "destroy"
            /\ ~ephemeral[NameOf(all[k])]
            /\ command_args.parallel => ~state_dir[NameOf(all[k])]

IsPrefix(s, t) == Len(s) <= Len(t) /\ SubSeq(t, 1, Len(s)) = s
\* The records of a run without failure whose loop completed the
\* scenarios before the i-th: the shared create record when there is one,
\* one record per executed scenario in order, and the shared destroy
\* record once the loop is over.
RecordsOfRun ==
    (IF DefaultOwnsCreate
     THEN <<Record(NameOf(default_config), <<"create">>)>> ELSE <<>>) \o
    [k \in 1..(i - 1) |->
        Record(NameOf(all[k]), Expected(k, Len(sequence[all[k]])))] \o
    (IF DefaultOwnsDestroy /\ i > Len(all)
     THEN <<Record(NameOf(default_config), <<"destroy">>)>> ELSE <<>>)

\* C20: the results list is append-only: in every step of a run its old
\* content is a prefix of its new content; and when a run ends without
\* failure the list holds exactly one record per executed scenario, in
\* execution order, between the shared create record and the shared
\* destroy record where there are such.
C20_ResultsAppendOnly ==
    /\ [][IsPrefix(results, results')]_vars
    /\ []((Done /\ Entered /\ failure.exc = NoExc) => results = RecordsOfRun)

\* A finished shared run without failure whose list holds the create
\* record, the records of two scenarios and the destroy record.
C20_Witness ==
    /\ Done /\ Entered /\ failure.exc = NoExc /\ ~ResetRun
    /\ DefaultOwnsCreate /\ DefaultOwnsDestroy
    /\ Len(all) = 2 /\ i = 3
    /\ Len(results) = 4
    /\ results[2].name = NameOf(all[1]) /\ results[3].name = NameOf(all[2])

\* The step made a call of execute_subcommand.
Called == Len(dispatched') = Len(dispatched) + 1
\* The step dispatched prepare.
CalledPrepare == Called /\ dispatched'[Len(dispatched')].action = "prepare"
\* The step invoked provisioner.prepare().
InvokedNow ==
    \E n \in (Len(steps) + 1)..Len(steps') : steps'[n].step = "provisioner.prepare"
\* The dispatched prepare is one the handler skips: the scenario is
\* prepared and force is off, there is no provisioner, or the provisioner
\* has no prepare playbook.
SkipDue(k) ==
    \/ prepared[k] /\ ~command_args.force
    \/ provisioner = "none"
    \/ provisioner = "no_playbook"

\* C21: the prepared flag of a scenario's state changes only in a prepare
\* action, only from false to true and only directly after
\* provisioner.prepare() has returned; a skipped prepare (already prepared
\* without force, no provisioner, no prepare playbook) neither invokes
\* provisioner.prepare() nor changes the state; with force,
\* provisioner.prepare() is invoked even when the flag is already true.
C21_PreparedByPrepareOnly ==
    [][pc # "default" =>
        /\ prepared' # prepared =>
              /\ CalledPrepare
              /\ exc' = NoExc
              /\ steps'[Len(steps')].step = "provisioner.prepare"
              /\ \A k \in DOMAIN prepared :
                    prepared'[k] # prepared[k] =>
                       /\ k = dispatched'[Len(dispatched')].obj
                       /\ ~prepared[k] /\ prepared'[k]
        /\ InvokedNow => CalledPrepare
        /\ (CalledPrepare /\ SkipDue(dispatched'[Len(dispatched')].obj)) =>
              ~InvokedNow /\ prepared' = prepared
        /\ (CalledPrepare /\ exc' = NoExc /\ command_args.force
                          /\ provisioner = "ready") =>
              InvokedNow /\ prepared'[dispatched'[Len(dispatched')].obj]
        /\ (CalledPrepare /\ exc' = NoExc /\ InvokedNow) =>
              prepared'[dispatched'[Len(dispatched')].obj]
    ]_vars

\* A finished forced run over a scenario that was prepared before and lists
\* prepare twice: the provisioner prepared it in both.
C21_Witness ==
    /\ Done /\ command_args.force /\ persisted /\ failure.exc = NoExc
    /\ Len(all) >= 1
    /\ Cardinality(PrepareCalls(1)) = 2
    /\ Cardinality(PrepareInvocations(1)) = 2
    /\ prepared[1]

\* The names of the dispatch steps logged for call n, in order.
DispatchSteps(n) ==
    LET ss == SelectSeq(steps, LAMBDA s :
                  /\ s.at = n
                  /\ s.step \in {"marker", "config.write", "write_config",
                                 "manage_inventory", "handler"})
    IN  [m \in 1..Len(ss) |-> ss[m].step]
\* Call n returned: it is neither the failing call of the run nor the
\* failing call of the compensation.
Returned(n) ==
    /\ n # failure.at
    /\ ~(n = Len(dispatched) /\ compensation = "failed")
\* The order of the steps of one dispatch.
DispatchOrder ==
    <<"marker", "config.write">> \o
    (IF provisioner = "none" THEN <<>> ELSE <<"write_config", "manage_inventory">>) \o
    <<"handler">>

\* C22: in every dispatch of an action the marker of the config is set to
\* the action's name, then the config is written, then, only when the
\* config has a provisioner, provisioner.write_config() and
\* provisioner.manage_inventory() are invoked, and only then the handler's
\* execute runs; without a provisioner neither of its methods is invoked.
C22_DispatchOrder ==
    \A n \in 1..Len(dispatched) :
       dispatched[n].action \in KnownActions =>
          /\ IsPrefix(DispatchSteps(n), DispatchOrder)
          /\ Len(DispatchSteps(n)) >= 2
          /\ Returned(n) => DispatchSteps(n) = DispatchOrder
          /\ \A m \in 1..Len(steps) :
                steps[m].at = n =>
                   /\ steps[m].step = "marker" =>
                         /\ steps[m].arg = <<dispatched[n].action>>
                         /\ steps[m].obj = dispatched[n].obj
                   /\ provisioner = "none" =>
                         steps[m].step \notin {"write_config", "manage_inventory"}
          /\ n = LastCall(dispatched[n].obj) =>
                current_action[dispatched[n].obj] = dispatched[n].action

\* A finished run without a provisioner and without failure: the first of
\* its calls set the marker, wrote the config and ran the handler.
C22_Witness ==
    /\ Done /\ provisioner = "none" /\ failure.exc = NoExc
    /\ Len(dispatched) >= 3
    /\ DispatchSteps(1) = <<"marker", "config.write", "handler">>
    /\ DispatchSteps(3) = <<"marker", "config.write", "handler">>

CompensationCalls(k) ==
    {Call(all[k], k, "cleanup"), Call(all[k], k, "destroy"),
     Call(default_config, 0, "destroy")}

\* C24: the run is fail-fast across scenarios: once an action of a
\* scenario has failed with ScenarioFailureError, no prerun and no
\* sequence action of a later scenario of the set is performed, and the
\* trailing destroy of the default scenario after the loop is not run;
\* the only calls after the failure are those of the compensation.
C24_FailFast ==
    (failure.exc.kind = "sfe" /\ FailedIn(failure.obj)) =>
        LET k == failure.obj
        IN  /\ i = k
            /\ pc \in {"cleanup", "comp_destroy", "comp_prune", "handler", "done"}
            /\ \A n \in 1..Len(dispatched) : dispatched[n].obj <= k
            /\ \A m \in 1..Len(steps) : steps[m].obj <= k
            /\ \A n \in (failure.at + 1)..Len(dispatched) :
                  /\ dispatched[n] \in CompensationCalls(k)
                  /\ command_args.destroy = "always"
                  /\ n <= failure.at + 2
            /\ Len(results) <= RecordsBefore(k) + 2

\* A finished run over two flagged scenarios with a sharing default
\* scenario, not in always-destroy mode: the first scenario failed and
\* nothing was called after the failing action.
C24_Witness ==
    /\ Done /\ failure.exc.kind = "sfe" /\ FailedIn(1) /\ Len(all) = 2
    /\ prerun[all[2]] /\ DefaultOwnsDestroy
    /\ command_args.destroy = "never"
    /\ Len(dispatched) = failure.at
    /\ \A m \in 1..Len(steps) : steps[m].obj <= 1

\* C25: in always-destroy mode no created resource is leaked: when the
\* run ends, in success or in failure, every create dispatched against a
\* scenario is followed by a destroy dispatched against that scenario.
C25_NoLeak ==
    (Done /\ command_args.destroy = "always") =>
        \A n \in 1..Len(dispatched) :
           dispatched[n].action = "create" =>
              \E m \in (n + 1)..Len(dispatched) :
                 /\ dispatched[m].action = "destroy"
                 /\ dispatched[m].scn = dispatched[n].scn

====
